---- MODULE Spec2Model ----
(***************************************************************************)
(* Named locks of pkg/locks: a registry (namedLocker) mapping lock names   *)
(* to reference-counted RW-lock entries (namedLock), with Acquire,         *)
(* RAcquire, Release, RRelease and Upgrade.  Every atomic add/store, every *)
(* registry-mutex operation and every RW-lock operation of the code is one *)
(* step of the calling goroutine.                                          *)
(***************************************************************************)
EXTENDS Integers, FiniteSets, Sequences, TLC

\* ------------------------------------------------------------------ bounds
NumProcs == 2          \* calling goroutines
MaxCalls == 3          \* Acquire/RAcquire calls made in one behaviour

Procs == 1..NumProcs
Names == {"a", "b"}    \* valid (non-empty) lock names
OneName == {"a"}       \* the name the callers contend for
NoName == ""           \* the invalid lock name
Entries == 1..MaxCalls \* a call constructs at most one namedLock

\* ------------------------------------------------------------------- state
VARIABLES
    locks,     \* namedLocker.locks: name -> entry (0: no entry)
    mapLock,   \* namedLocker.mapLock: 0 free, else the goroutine holding it
    ent,       \* the namedLock objects constructed so far, by identity
    nextId,    \* identity of the next namedLock newNamedLock constructs
    pc,        \* position of each calling goroutine
    tpc,       \* position of the goroutine spawned by Upgrade ("none": not running)
    nl,        \* the *namedLock a goroutine is working on (0: none)
    lockName,  \* the lockName argument of the call in progress
    ch,        \* Upgrade's channel ch (buffer of 1): TRUE when a value is queued
    ret,       \* what the last Acquire/RAcquire returned: "none", "ok", "err"
    calls,     \* number of Acquire/RAcquire calls made so far
    alone,     \* the goroutine that has run alone since a quiescent state (0: none)
    anyShared, \* whether RAcquire has been called so far
    seen,      \* per Acquire in progress: the shared holders of its name at the call
               \* that have not called RRelease since
    c0,        \* WriteLockCounter() as the caller of Upgrade read it under its shared lock
    grants,    \* per namedLock: how many times nl.Lock() has returned
    others     \* per Upgrade: returns of nl.Lock() to other goroutines since it began

\* history of the calls, kept to state what callers observed
hist == <<seen, c0, grants, others>>

vars == <<locks, mapLock, ent, nextId, pc, tpc, nl, lockName, ch, ret, calls, alone,
          anyShared, seen, c0, grants, others>>

\* a namedLock as newNamedLock leaves it; w, r, wwait are the sync.RWMutex:
\* the writer holding it, the readers holding it, the writers inside Lock()
newNamedLock(name) ==
    [name |-> name, queueSize |-> 0, writeLockMode |-> 0, writeLockCount |-> 0,
     w |-> 0, r |-> {}, wwait |-> {}]

\* NewNamedLocker: empty map, free mutex
Init ==
    /\ locks = [n \in Names |-> 0]
    /\ mapLock = 0
    /\ ent = [e \in Entries |-> newNamedLock(NoName)]
    /\ nextId = 1
    /\ pc = [p \in Procs |-> "idle"]
    /\ tpc = [p \in Procs |-> "none"]
    /\ nl = [p \in Procs |-> 0]
    /\ lockName = [p \in Procs |-> NoName]
    /\ ch = [p \in Procs |-> FALSE]
    /\ ret = [p \in Procs |-> "none"]
    /\ calls = 0
    /\ alone = 0
    /\ anyShared = FALSE
    /\ seen = [p \in Procs |-> {}]
    /\ c0 = [p \in Procs |-> 0]
    /\ grants = [e \in Entries |-> 0]
    /\ others = [p \in Procs |-> 0]

AllIdle == \A q \in Procs : pc[q] = "idle"

\* a goroutine that is in no call may make one, MaxCalls times in all
MayCall(p) == pc[p] = "idle" /\ calls < MaxCalls

\* the goroutine has made no call yet
First(p) == pc[p] = "idle" /\ ret[p] = "none"

\* history: p keeps running alone, any other goroutine ends the solo run
Solo(p) == IF alone = p THEN p ELSE 0

\* errInvalidLockName
errInvalidLockName(name) == "err"

\* ---------------------------------------------------------------- sync.Mutex
MutexLock(p) == mapLock = 0 /\ mapLock' = p
MutexUnlock(p) == mapLock' = 0

\* -------------------------------------------------------------- sync.RWMutex
\* Lock() announces the writer (new readers then wait), then waits for the
\* readers and the writer inside to leave
RWLockAnnounce(e, p) == [ent EXCEPT ![e].wwait = @ \cup {p}]
RWLockReady(e) == ent[e].w = 0 /\ ent[e].r = {}
RWLockGrant(e, p) == [ent EXCEPT ![e].w = p, ![e].wwait = @ \ {p}]
\* faulty variant: Unlock that does not free the lock
RWUnlockLost(e) == ent
RWUnlock(e) == [ent EXCEPT ![e].w = 0]
RWRLockReady(e) == ent[e].w = 0 /\ ent[e].wwait = {}
RWRLockGrant(e, p) == [ent EXCEPT ![e].r = @ \cup {p}]
RWRUnlock(e, p) == [ent EXCEPT ![e].r = @ \ {p}]

\* history: nl.Lock() of entry e returns to goroutine q (a caller, or the
\* goroutine that the caller q spawned in Upgrade)
Granted(e, q) ==
    /\ grants' = [grants EXCEPT ![e] = @ + 1]
    /\ others' = [r \in Procs |->
                     IF r # q /\ tpc[r] # "none" /\ nl[r] = e
                     THEN others[r] + 1 ELSE others[r]]

\* ------------------------------------------------------------------ Acquire
\* line 149: Acquire(lockName) is called
AcquireCall(p, n) ==
    /\ MayCall(p)
    /\ calls' = calls + 1
    /\ pc' = [pc EXCEPT ![p] = "acq_check"]
    /\ lockName' = [lockName EXCEPT ![p] = n]
    /\ ret' = [ret EXCEPT ![p] = "none"]
    /\ alone' = IF AllIdle THEN p ELSE 0
    /\ seen' = [seen EXCEPT ![p] = {r \in Procs \ {p} : pc[r] = "held_r" /\ lockName[r] = n}]
    /\ UNCHANGED <<locks, mapLock, ent, nextId, tpc, nl, ch, anyShared, c0, grants, others>>

\* faulty variant: Acquire without the name check
AcqCheckNoTest(p) ==
    /\ pc[p] = "acq_check"
    /\ pc' = [pc EXCEPT ![p] = "acq_maplock"]
    /\ alone' = Solo(p)
    /\ UNCHANGED <<locks, mapLock, ent, nextId, tpc, nl, lockName, ch, ret, calls, anyShared, hist>>

\* line 150-152: if lockName == "" { return nil, errInvalidLockName(lockName) }
AcqCheck(p) ==
    /\ pc[p] = "acq_check"
    /\ IF lockName[p] = NoName
       THEN /\ pc' = [pc EXCEPT ![p] = "idle"]
            /\ ret' = [ret EXCEPT ![p] = errInvalidLockName(lockName[p])]
       ELSE /\ pc' = [pc EXCEPT ![p] = "acq_maplock"]
            /\ UNCHANGED ret
    /\ alone' = Solo(p)
    /\ UNCHANGED <<locks, mapLock, ent, nextId, tpc, nl, lockName, ch, calls, anyShared, hist>>

\* line 155-159 (and 177-181): find the entry of the name, or construct and store one
FindOrCreate(p, next) ==
    /\ IF locks[lockName[p]] # 0
       THEN /\ nl' = [nl EXCEPT ![p] = locks[lockName[p]]]
            /\ UNCHANGED <<locks, ent, nextId>>
       ELSE /\ nl' = [nl EXCEPT ![p] = nextId]
            /\ ent' = [ent EXCEPT ![nextId] = newNamedLock(lockName[p])]
            /\ locks' = [locks EXCEPT ![lockName[p]] = nextId]
            /\ nextId' = nextId + 1
    /\ pc' = [pc EXCEPT ![p] = next]
    /\ alone' = Solo(p)
    /\ UNCHANGED <<tpc, lockName, ch, ret, calls, anyShared, hist>>

\* line 154-159: lk.mapLock.Lock(), then the lookup under the mutex
AcqMapLock(p) ==
    /\ pc[p] = "acq_maplock"
    /\ MutexLock(p)
    /\ FindOrCreate(p, "acq_add")

\* faulty variant: Acquire does not count its reference
AcqAddLost(p) ==
    /\ pc[p] = "acq_add"
    /\ pc' = [pc EXCEPT ![p] = "acq_mapunlock"]
    /\ alone' = Solo(p)
    /\ UNCHANGED <<locks, mapLock, ent, nextId, tpc, nl, lockName, ch, ret, calls, anyShared, hist>>

\* line 160: atomic.AddInt32(&nl.queueSize, 1)
AcqAdd(p) ==
    /\ pc[p] = "acq_add"
    /\ ent' = [ent EXCEPT ![nl[p]].queueSize = @ + 1]
    /\ pc' = [pc EXCEPT ![p] = "acq_mapunlock"]
    /\ alone' = Solo(p)
    /\ UNCHANGED <<locks, mapLock, nextId, tpc, nl, lockName, ch, ret, calls, anyShared, hist>>

\* faulty variant: Acquire keeps the registry mutex while it goes on to nl.Lock()
AcqMapUnlockLate(p) ==
    /\ pc[p] = "acq_mapunlock"
    /\ pc' = [pc EXCEPT ![p] = "acq_store"]
    /\ alone' = Solo(p)
    /\ UNCHANGED <<locks, mapLock, ent, nextId, tpc, nl, lockName, ch, ret, calls, anyShared, hist>>

\* line 161: lk.mapLock.Unlock()
AcqMapUnlock(p) ==
    /\ pc[p] = "acq_mapunlock"
    /\ MutexUnlock(p)
    /\ pc' = [pc EXCEPT ![p] = "acq_store"]
    /\ alone' = Solo(p)
    /\ UNCHANGED <<locks, ent, nextId, tpc, nl, lockName, ch, ret, calls, anyShared, hist>>

\* line 162: atomic.StoreInt32(&nl.writeLockMode, 1)
AcqStore(p) ==
    /\ pc[p] = "acq_store"
    /\ ent' = [ent EXCEPT ![nl[p]].writeLockMode = 1]
    /\ pc' = [pc EXCEPT ![p] = "acq_lock"]
    /\ alone' = Solo(p)
    /\ UNCHANGED <<locks, mapLock, nextId, tpc, nl, lockName, ch, ret, calls, anyShared, hist>>

\* line 164: nl.Lock() is entered
AcqLock(p) ==
    /\ pc[p] = "acq_lock"
    /\ ent' = RWLockAnnounce(nl[p], p)
    /\ pc' = [pc EXCEPT ![p] = "acq_lockwait"]
    /\ alone' = Solo(p)
    /\ UNCHANGED <<locks, mapLock, nextId, tpc, nl, lockName, ch, ret, calls, anyShared, hist>>

\* line 164: nl.Lock() returns
AcqLockGranted(p) ==
    /\ pc[p] = "acq_lockwait"
    /\ RWLockReady(nl[p])
    /\ ent' = RWLockGrant(nl[p], p)
    /\ pc' = [pc EXCEPT ![p] = "acq_count"]
    /\ alone' = Solo(p)
    /\ UNCHANGED <<locks, mapLock, nextId, tpc, nl, lockName, ch, ret, calls, anyShared, c0>>
    /\ seen' = [seen EXCEPT ![p] = {}]
    /\ Granted(nl[p], p)

\* faulty variant: Acquire's increment of the write counter is lost
AcqCountLost(p) ==
    /\ pc[p] = "acq_count"
    /\ pc' = [pc EXCEPT ![p] = "held_w"]
    /\ ret' = [ret EXCEPT ![p] = "ok"]
    /\ alone' = Solo(p)
    /\ UNCHANGED <<locks, mapLock, ent, nextId, tpc, nl, lockName, ch, calls, anyShared, hist>>

\* line 166-167: nl.writeLockCount++ ; return nl, nil
AcqCount(p) ==
    /\ pc[p] = "acq_count"
    /\ ent' = [ent EXCEPT ![nl[p]].writeLockCount = @ + 1]
    /\ pc' = [pc EXCEPT ![p] = "held_w"]
    /\ ret' = [ret EXCEPT ![p] = "ok"]
    /\ alone' = Solo(p)
    /\ UNCHANGED <<locks, mapLock, nextId, tpc, nl, lockName, ch, calls, anyShared, hist>>

\* ----------------------------------------------------------------- RAcquire
\* line 171: RAcquire(lockName) is called
RAcquireCall(p, n) ==
    /\ MayCall(p)
    /\ calls' = calls + 1
    /\ pc' = [pc EXCEPT ![p] = "racq_check"]
    /\ lockName' = [lockName EXCEPT ![p] = n]
    /\ ret' = [ret EXCEPT ![p] = "none"]
    /\ alone' = IF AllIdle THEN p ELSE 0
    /\ anyShared' = TRUE
    /\ UNCHANGED <<locks, mapLock, ent, nextId, tpc, nl, ch, hist>>

\* line 172-174: if lockName == "" { return nil, errInvalidLockName(lockName) }
RAcqCheck(p) ==
    /\ pc[p] = "racq_check"
    /\ IF lockName[p] = NoName
       THEN /\ pc' = [pc EXCEPT ![p] = "idle"]
            /\ ret' = [ret EXCEPT ![p] = errInvalidLockName(lockName[p])]
       ELSE /\ pc' = [pc EXCEPT ![p] = "racq_maplock"]
            /\ UNCHANGED ret
    /\ alone' = Solo(p)
    /\ UNCHANGED <<locks, mapLock, ent, nextId, tpc, nl, lockName, ch, calls, anyShared, hist>>

\* line 176-181: lk.mapLock.Lock(), then the lookup under the mutex
RAcqMapLock(p) ==
    /\ pc[p] = "racq_maplock"
    /\ MutexLock(p)
    /\ FindOrCreate(p, "racq_add")

\* line 183: atomic.AddInt32(&nl.queueSize, 1)
RAcqAdd(p) ==
    /\ pc[p] = "racq_add"
    /\ ent' = [ent EXCEPT ![nl[p]].queueSize = @ + 1]
    /\ pc' = [pc EXCEPT ![p] = "racq_mapunlock"]
    /\ alone' = Solo(p)
    /\ UNCHANGED <<locks, mapLock, nextId, tpc, nl, lockName, ch, ret, calls, anyShared, hist>>

\* line 184: lk.mapLock.Unlock()
RAcqMapUnlock(p) ==
    /\ pc[p] = "racq_mapunlock"
    /\ MutexUnlock(p)
    /\ pc' = [pc EXCEPT ![p] = "racq_store"]
    /\ alone' = Solo(p)
    /\ UNCHANGED <<locks, ent, nextId, tpc, nl, lockName, ch, ret, calls, anyShared, hist>>

\* line 185: atomic.StoreInt32(&nl.writeLockMode, 0)
RAcqStore(p) ==
    /\ pc[p] = "racq_store"
    /\ ent' = [ent EXCEPT ![nl[p]].writeLockMode = 0]
    /\ pc' = [pc EXCEPT ![p] = "racq_rlock"]
    /\ alone' = Solo(p)
    /\ UNCHANGED <<locks, mapLock, nextId, tpc, nl, lockName, ch, ret, calls, anyShared, hist>>

\* line 187-188: nl.RLock() returns; return nl, nil
RAcqRLock(p) ==
    /\ pc[p] = "racq_rlock"
    /\ RWRLockReady(nl[p])
    /\ ent' = RWRLockGrant(nl[p], p)
    /\ pc' = [pc EXCEPT ![p] = "held_r"]
    /\ ret' = [ret EXCEPT ![p] = "ok"]
    /\ alone' = Solo(p)
    /\ UNCHANGED <<locks, mapLock, nextId, tpc, nl, lockName, ch, calls, anyShared, hist>>

\* ------------------------------------------------------------------ Release
\* line 72-76: nl.name is never empty here; atomic.StoreInt32(&nl.writeLockMode, 0)
RelStore(p) ==
    /\ pc[p] \in {"held_w", "held_u"}
    /\ ent[nl[p]].name # NoName
    /\ ent' = [ent EXCEPT ![nl[p]].writeLockMode = 0]
    /\ pc' = [pc EXCEPT ![p] = "rel_add"]
    /\ alone' = Solo(p)
    /\ UNCHANGED <<locks, mapLock, nextId, tpc, nl, lockName, ch, ret, calls, anyShared, seen, grants>>
    /\ c0' = [c0 EXCEPT ![p] = 0]
    /\ others' = [others EXCEPT ![p] = 0]

\* line 77-78: qs := atomic.AddInt32(&nl.queueSize, -1); if qs == 0
RelAdd(p) ==
    /\ pc[p] = "rel_add"
    /\ ent' = [ent EXCEPT ![nl[p]].queueSize = @ - 1]
    /\ pc' = [pc EXCEPT ![p] = IF ent'[nl[p]].queueSize = 0
                                 THEN "rel_maplock" ELSE "rel_unlock"]
    /\ alone' = Solo(p)
    /\ UNCHANGED <<locks, mapLock, nextId, tpc, nl, lockName, ch, ret, calls, anyShared, hist>>

\* faulty variant: the release leaves the entry in the map
MapDeleteNothing(p) == locks

\* line 80 (and 98): delete(nl.locker.locks, nl.name)
MapDelete(p) == [locks EXCEPT ![ent[nl[p]].name] = 0]

\* faulty variant: Release unlocks the entry before it removes it from the map
RelMapLockUnlocked(p) ==
    /\ pc[p] = "rel_maplock"
    /\ MutexLock(p)
    /\ ent' = RWUnlock(nl[p])
    /\ locks' = MapDelete(p)
    /\ pc' = [pc EXCEPT ![p] = "rel_mapunlock"]
    /\ alone' = Solo(p)
    /\ UNCHANGED <<nextId, tpc, nl, lockName, ch, ret, calls, anyShared, hist>>

\* line 79-80: nl.locker.mapLock.Lock(), then the delete under the mutex
RelMapLock(p) ==
    /\ pc[p] = "rel_maplock"
    /\ MutexLock(p)
    /\ locks' = MapDelete(p)
    /\ pc' = [pc EXCEPT ![p] = "rel_mapunlock"]
    /\ alone' = Solo(p)
    /\ UNCHANGED <<ent, nextId, tpc, nl, lockName, ch, ret, calls, anyShared, hist>>

\* line 81: nl.locker.mapLock.Unlock()
RelMapUnlock(p) ==
    /\ pc[p] = "rel_mapunlock"
    /\ MutexUnlock(p)
    /\ pc' = [pc EXCEPT ![p] = "rel_unlock"]
    /\ alone' = Solo(p)
    /\ UNCHANGED <<locks, ent, nextId, tpc, nl, lockName, ch, ret, calls, anyShared, hist>>

\* line 84-85: nl.Unlock(); return nil
RelUnlock(p) ==
    /\ pc[p] = "rel_unlock"
    /\ ent' = RWUnlock(nl[p])
    /\ pc' = [pc EXCEPT ![p] = "idle"]
    /\ nl' = [nl EXCEPT ![p] = 0]
    /\ lockName' = [lockName EXCEPT ![p] = NoName]
    /\ alone' = Solo(p)
    /\ UNCHANGED <<locks, mapLock, nextId, tpc, ch, ret, calls, anyShared, hist>>

\* ----------------------------------------------------------------- RRelease
\* called by the holder of a shared lock (pc "held_r") or by Upgrade (line 140,
\* pc "up_rrelease"); tpc[p] # "none" tells the two apart when it returns
\* line 91-96: nl.name is never empty; qs := atomic.AddInt32(&nl.queueSize, -1)
RRelAdd(p) ==
    /\ pc[p] \in {"held_r", "up_rrelease"}
    /\ pc[p] = "held_r" => tpc[p] = "none"
    /\ ent[nl[p]].name # NoName
    /\ ent' = [ent EXCEPT ![nl[p]].queueSize = @ - 1]
    /\ pc' = [pc EXCEPT ![p] = IF ent'[nl[p]].queueSize = 0
                                 THEN "rrel_maplock" ELSE "rrel_runlock"]
    /\ alone' = Solo(p)
    /\ UNCHANGED <<locks, mapLock, nextId, tpc, nl, lockName, ch, ret, calls, anyShared, c0, grants, others>>
    /\ seen' = [q \in Procs |-> seen[q] \ {p}]

\* faulty variant: RRelease takes the mutex but leaves the entry in the map
RRelMapLockKept(p) ==
    /\ pc[p] = "rrel_maplock"
    /\ MutexLock(p)
    /\ pc' = [pc EXCEPT ![p] = "rrel_mapunlock"]
    /\ alone' = Solo(p)
    /\ UNCHANGED <<locks, ent, nextId, tpc, nl, lockName, ch, ret, calls, anyShared, hist>>

\* line 97-98: nl.locker.mapLock.Lock(), then the delete under the mutex
RRelMapLock(p) ==
    /\ pc[p] = "rrel_maplock"
    /\ MutexLock(p)
    /\ locks' = MapDelete(p)
    /\ pc' = [pc EXCEPT ![p] = "rrel_mapunlock"]
    /\ alone' = Solo(p)
    /\ UNCHANGED <<ent, nextId, tpc, nl, lockName, ch, ret, calls, anyShared, hist>>

\* line 99: nl.locker.mapLock.Unlock()
RRelMapUnlock(p) ==
    /\ pc[p] = "rrel_mapunlock"
    /\ MutexUnlock(p)
    /\ pc' = [pc EXCEPT ![p] = "rrel_runlock"]
    /\ alone' = Solo(p)
    /\ UNCHANGED <<locks, ent, nextId, tpc, nl, lockName, ch, ret, calls, anyShared, hist>>

\* line 102-103: nl.RUnlock(); return nil (to the caller, or to Upgrade line 143)
RRelRUnlock(p) ==
    /\ pc[p] = "rrel_runlock"
    /\ ent' = RWRUnlock(nl[p], p)
    /\ IF tpc[p] = "none"
       THEN /\ pc' = [pc EXCEPT ![p] = "idle"]
            /\ nl' = [nl EXCEPT ![p] = 0]
            /\ lockName' = [lockName EXCEPT ![p] = NoName]
       ELSE /\ pc' = [pc EXCEPT ![p] = "up_wait"]
            /\ UNCHANGED <<nl, lockName>>
    /\ alone' = Solo(p)
    /\ UNCHANGED <<locks, mapLock, nextId, tpc, ch, ret, calls, anyShared, hist>>

\* ------------------------------------------------------------------ Upgrade
\* line 125-128: make(chan bool, 1); wg.Add(1); go func() {...}()
UpgradeCall(p) ==
    /\ pc[p] = "held_r"
    /\ tpc[p] = "none"
    /\ tpc' = [tpc EXCEPT ![p] = "t_add"]
    /\ ch' = [ch EXCEPT ![p] = FALSE]
    /\ pc' = [pc EXCEPT ![p] = "up_recv"]
    /\ alone' = Solo(p)
    /\ UNCHANGED <<locks, mapLock, ent, nextId, nl, lockName, ret, calls, anyShared, seen, grants>>
    /\ c0' = [c0 EXCEPT ![p] = ent[nl[p]].writeLockCount]
    /\ others' = [others EXCEPT ![p] = 0]

\* line 129: atomic.AddInt32(&nl.queueSize, 1), in the spawned goroutine
TaskAdd(p) ==
    /\ tpc[p] = "t_add"
    /\ ent' = [ent EXCEPT ![nl[p]].queueSize = @ + 1]
    /\ tpc' = [tpc EXCEPT ![p] = "t_send"]
    /\ alone' = Solo(p)
    /\ UNCHANGED <<locks, mapLock, nextId, pc, nl, lockName, ch, ret, calls, anyShared, hist>>

\* line 130: ch <- true (the buffer of 1 is empty: the send does not block)
TaskSend(p) ==
    /\ tpc[p] = "t_send"
    /\ ch' = [ch EXCEPT ![p] = TRUE]
    /\ tpc' = [tpc EXCEPT ![p] = "t_store"]
    /\ alone' = Solo(p)
    /\ UNCHANGED <<locks, mapLock, ent, nextId, pc, nl, lockName, ret, calls, anyShared, hist>>

\* faulty variant: Upgrade's goroutine does not store its write intent
TaskStoreSkipped(p) ==
    /\ tpc[p] = "t_store"
    /\ tpc' = [tpc EXCEPT ![p] = "t_lock"]
    /\ alone' = Solo(p)
    /\ UNCHANGED <<locks, mapLock, ent, nextId, pc, nl, lockName, ch, ret, calls, anyShared, hist>>

\* line 131: atomic.StoreInt32(&nl.writeLockMode, 1)
TaskStore(p) ==
    /\ tpc[p] = "t_store"
    /\ ent' = [ent EXCEPT ![nl[p]].writeLockMode = 1]
    /\ tpc' = [tpc EXCEPT ![p] = "t_lock"]
    /\ alone' = Solo(p)
    /\ UNCHANGED <<locks, mapLock, nextId, pc, nl, lockName, ch, ret, calls, anyShared, hist>>

\* line 132: nl.Lock() is entered
TaskLock(p) ==
    /\ tpc[p] = "t_lock"
    /\ ent' = RWLockAnnounce(nl[p], p)
    /\ tpc' = [tpc EXCEPT ![p] = "t_lockwait"]
    /\ alone' = Solo(p)
    /\ UNCHANGED <<locks, mapLock, nextId, pc, nl, lockName, ch, ret, calls, anyShared, hist>>

\* faulty variant: Upgrade's goroutine goes on without waiting for the exclusive lock
TaskLockNoWait(p) ==
    /\ tpc[p] = "t_lockwait"
    /\ ent' = RWLockGrant(nl[p], p)
    /\ tpc' = [tpc EXCEPT ![p] = "t_count"]
    /\ alone' = Solo(p)
    /\ UNCHANGED <<locks, mapLock, nextId, pc, nl, lockName, ch, ret, calls, anyShared, seen, c0>>
    /\ Granted(nl[p], p)

\* line 132: nl.Lock() returns
TaskLockGranted(p) ==
    /\ tpc[p] = "t_lockwait"
    /\ RWLockReady(nl[p])
    /\ ent' = RWLockGrant(nl[p], p)
    /\ tpc' = [tpc EXCEPT ![p] = "t_count"]
    /\ alone' = Solo(p)
    /\ UNCHANGED <<locks, mapLock, nextId, pc, nl, lockName, ch, ret, calls, anyShared, seen, c0>>
    /\ Granted(nl[p], p)

\* faulty variant: Upgrade's goroutine ends without counting its write lock
TaskCountLost(p) ==
    /\ tpc[p] = "t_count"
    /\ tpc' = [tpc EXCEPT ![p] = "t_exit"]
    /\ alone' = Solo(p)
    /\ UNCHANGED <<locks, mapLock, ent, nextId, pc, nl, lockName, ch, ret, calls, anyShared, hist>>

\* line 133-135: nl.writeLockCount++ ; wg.Done(), and the goroutine ends
TaskCount(p) ==
    /\ tpc[p] = "t_count"
    /\ ent' = [ent EXCEPT ![nl[p]].writeLockCount = @ + 1]
    /\ tpc' = [tpc EXCEPT ![p] = "t_exit"]
    /\ alone' = Solo(p)
    /\ UNCHANGED <<locks, mapLock, nextId, pc, nl, lockName, ch, ret, calls, anyShared, hist>>

\* faulty variant: Upgrade goes on to RRelease without waiting for the signal
UpRecvNoWait(p) ==
    /\ pc[p] = "up_recv"
    /\ ch' = [ch EXCEPT ![p] = FALSE]
    /\ pc' = [pc EXCEPT ![p] = "up_rrelease"]
    /\ alone' = Solo(p)
    /\ UNCHANGED <<locks, mapLock, ent, nextId, tpc, nl, lockName, ret, calls, anyShared, hist>>

\* line 138-139: <-ch ; close(ch)
UpRecv(p) ==
    /\ pc[p] = "up_recv"
    /\ ch[p]
    /\ ch' = [ch EXCEPT ![p] = FALSE]
    /\ pc' = [pc EXCEPT ![p] = "up_rrelease"]
    /\ alone' = Solo(p)
    /\ UNCHANGED <<locks, mapLock, ent, nextId, tpc, nl, lockName, ret, calls, anyShared, hist>>

\* line 143-145: wg.Wait(); return nl, nil
UpWait(p) ==
    /\ pc[p] = "up_wait"
    /\ tpc[p] = "t_exit"
    /\ tpc' = [tpc EXCEPT ![p] = "none"]
    /\ pc' = [pc EXCEPT ![p] = "held_u"]
    /\ alone' = Solo(p)
    /\ UNCHANGED <<locks, mapLock, ent, nextId, nl, lockName, ch, ret, calls, anyShared, hist>>

\* -------------------------------------------------------------- the program
\* a caller invokes Acquire or RAcquire with a name of N or the empty name
Call(p, N) ==
    \/ \E n \in N \cup {NoName} : AcquireCall(p, n)
    \/ \E n \in N \cup {NoName} : RAcquireCall(p, n)

\* the steps of a goroutine inside the package, and of the goroutine it spawned
Run(p) ==
    \/ AcqCheck(p) \/ AcqMapLock(p) \/ AcqAdd(p) \/ AcqMapUnlock(p)
    \/ AcqStore(p) \/ AcqLock(p) \/ AcqLockGranted(p) \/ AcqCount(p)
    \/ RAcqCheck(p) \/ RAcqMapLock(p) \/ RAcqAdd(p) \/ RAcqMapUnlock(p)
    \/ RAcqStore(p) \/ RAcqRLock(p)
    \/ RelStore(p) \/ RelAdd(p) \/ RelMapLock(p) \/ RelMapUnlock(p) \/ RelUnlock(p)
    \/ RRelAdd(p) \/ RRelMapLock(p) \/ RRelMapUnlock(p) \/ RRelRUnlock(p)
    \/ UpgradeCall(p) \/ UpRecv(p) \/ UpWait(p)
    \/ TaskAdd(p) \/ TaskSend(p) \/ TaskStore(p) \/ TaskLock(p)
    \/ TaskLockGranted(p) \/ TaskCount(p)

\* goroutines that call again and again, all for one name
Next == \E p \in Procs : Call(p, OneName) \/ Run(p)

Spec == Init /\ [][Next]_vars

\* goroutines that each make one call, for either name
NamesNext == \E p \in Procs : (First(p) /\ Call(p, Names)) \/ Run(p)

NamesSpec == Init /\ [][NamesNext]_vars

\* goroutines that each make one call for one name, under the Go scheduler:
\* it runs every goroutine that can run, and a caller that was granted a lock
\* goes on to its release
FairNext == \E p \in Procs : (First(p) /\ Call(p, OneName)) \/ Run(p)

FairSpec == Init /\ [][FairNext]_vars /\ \A p \in Procs : WF_vars(Run(p))

\* ---------------------------------------------------------------- notions
Created(e) == e < nextId
InMap(e) == e # 0 /\ Created(e) /\ locks[ent[e].name] = e
\* between the return of Acquire/Upgrade and the start of Release
HoldsExclusive(p) == pc[p] \in {"held_w", "held_u"}
\* between the return of RAcquire and the start of RRelease/Upgrade
HoldsShared(p) == pc[p] = "held_r"
\* from the start of Upgrade to the start of the Release that follows it
InUpgrade(p) == tpc[p] # "none" \/ pc[p] = "held_u"

\* ------------------------------------------------------------------ claims
\* C1: when the callers only pair Acquire with Release, at most one caller
\* at a time is between the return of its Acquire and the start of its
\* Release for one name.
MutualExclusion ==
    ~anyShared => \A p, q \in Procs :
        (p # q /\ HoldsExclusive(p) /\ HoldsExclusive(q))
            => lockName[p] # lockName[q]

\* C2: no caller holds a shared lock on a name while another holds the
\* exclusive lock on that name.
ReaderWriterExclusion ==
    \A p, q \in Procs :
        (HoldsShared(p) /\ HoldsExclusive(q)) => lockName[p] # lockName[q]

\* C3: when no release is between its decrement and its map removal and no
\* Acquire/RAcquire holds the registry mutex, an entry is in the map if and
\* only if its reference count is greater than zero.
ReleasePartWay(p) == pc[p] \in {"rel_maplock", "rrel_maplock"}
AcquireInMutex(p) == pc[p] \in {"acq_add", "acq_mapunlock", "racq_add", "racq_mapunlock"}
RegistryMembership ==
    (\A p \in Procs : ~ReleasePartWay(p) /\ ~AcquireInMutex(p))
        => \A e \in Entries : Created(e) => (InMap(e) <=> ent[e].queueSize > 0)

\* C4: an entry that is in the map when its shared holder starts Upgrade
\* stays in the map until the upgrading caller's Release.
NoEvictionDuringUpgrade ==
    [][\A p \in Procs :
          ((HoldsShared(p) \/ InUpgrade(p)) /\ InMap(nl[p]) /\ InUpgrade(p)')
              => InMap(nl[p])']_vars

\* C5: from the return of Upgrade to the caller's Release no other caller
\* holds a shared or an exclusive lock on the same name, through any entry.
ExclusiveAfterUpgrade ==
    \A p, q \in Procs :
        (p # q /\ pc[p] = "held_u" /\ lockName[q] = lockName[p])
            => ~HoldsShared(q) /\ ~HoldsExclusive(q)

\* C6 as stated: after an upgrading caller has given up its shared hold and
\* before its Upgrade returns, no other caller is granted the exclusive lock
\* on the same entry.
UpgradeAtomic ==
    [][\A p, q \in Procs :
          (p # q /\ pc[p] = "up_wait" /\ nl[q] = nl[p])
              => ~(ent[nl[p]].w # q /\ ent'[nl[p]].w = q)]_vars

\* C6 as amended: other callers may be granted the exclusive lock in that
\* window, but from the grant to the upgrading caller's goroutine until the
\* caller's Release the upgrading caller is the only holder of the entry's
\* RW lock.
UpgradeGranted(p) == tpc[p] \in {"t_count", "t_exit"} \/ pc[p] = "held_u"
UpgradeSoleHolder ==
    \A p \in Procs :
        UpgradeGranted(p) => ent[nl[p]].w = p /\ ent[nl[p]].r = {}

\* a writer that asked for the entry waits while the upgraded caller holds it
UpgradeSoleHolderWitness ==
    \E p, q \in Procs :
        /\ p # q
        /\ pc[p] = "held_u"
        /\ nl[q] = nl[p]
        /\ pc[q] = "acq_lockwait"
        /\ ent[nl[p]].writeLockCount > 1

\* C7: no goroutine waits on an entry's RW lock while it holds the registry
\* mutex, and under fair scheduling every Acquire, RAcquire and Upgrade in
\* progress returns.
WaitsOnRWLock(p) == pc[p] \in {"acq_lockwait", "racq_rlock"} \/ tpc[p] = "t_lockwait"
CallInProgress(p) ==
    \/ pc[p] \in {"acq_check", "acq_maplock", "acq_add", "acq_mapunlock",
                  "acq_store", "acq_lock", "acq_lockwait", "acq_count",
                  "racq_check", "racq_maplock", "racq_add", "racq_mapunlock",
                  "racq_store", "racq_rlock", "up_recv", "up_rrelease", "up_wait"}
    \/ tpc[p] # "none"
Progress ==
    /\ [](\A p \in Procs : WaitsOnRWLock(p) => mapLock # p)
    /\ \A p \in Procs : CallInProgress(p) ~> ~CallInProgress(p)

\* two upgrades of one entry are in progress at once
ProgressWitness ==
    \E p, q \in Procs :
        /\ p # q
        /\ nl[p] = nl[q]
        /\ tpc[p] = "t_lockwait"
        /\ tpc[q] = "t_lockwait"

\* C8: an entry that has left the map is never stored in it again and no
\* call binds a new handle to it; a caller that runs alone from a quiescent
\* state gets an entry whose write counter is 1.
Removed(e) == Created(e) /\ ~InMap(e)
FreshEntry ==
    /\ [][\A e \in Entries :
             Removed(e) => /\ Removed(e)'
                           /\ \A p \in Procs : nl'[p] = e => nl[p] = e]_vars
    /\ [](\A p \in Procs :
             (alone = p /\ HoldsExclusive(p)) => ent[nl[p]].writeLockCount = 1)

\* a caller running alone holds a later entry of the name of a removed one
FreshEntryWitness ==
    \E p \in Procs : \E e \in Entries :
        /\ alone = p
        /\ pc[p] = "held_w"
        /\ Removed(e)
        /\ ent[e].name = lockName[p]
        /\ nl[p] > e

\* C9: the name check of Acquire("") and RAcquire("") is never blocked, returns
\* the error and no handle, and changes nothing of the registry or its entries.
AtCheck(p) == pc[p] \in {"acq_check", "racq_check"}
InvalidName ==
    /\ [](\A p \in Procs : AtCheck(p) => ENABLED (AcqCheck(p) \/ RAcqCheck(p)))
    /\ [][\A p \in Procs :
             (AtCheck(p) /\ lockName[p] = NoName /\ pc'[p] # pc[p])
                 => /\ pc'[p] = "idle"
                    /\ ret'[p] = "err"
                    /\ nl'[p] = 0
                    /\ UNCHANGED <<locks, mapLock, ent, nextId>>]_vars

\* a call with the empty name has returned its error while another call is
\* inside the mutex
InvalidNameWitness ==
    \E p, q \in Procs :
        /\ pc[p] = "idle" /\ ret[p] = "err"
        /\ mapLock = q
        /\ nl[q] # 0

\* C10: the goroutine that holds the registry mutex is inside one of the short
\* sections of Acquire, RAcquire, Release or RRelease, where its next step is
\* never blocked: it neither waits for an entry's RW lock nor sits between
\* the return of an acquire and the start of the release.
MutexSections ==
    {"acq_add", "acq_mapunlock", "racq_add", "racq_mapunlock",
     "rel_mapunlock", "rrel_mapunlock"}
MutexNeverBlocked ==
    \A p \in Procs :
        mapLock = p =>
            /\ pc[p] \in MutexSections
            /\ ~WaitsOnRWLock(p)
            /\ ENABLED (AcqAdd(p) \/ AcqMapUnlock(p) \/ RAcqAdd(p)
                        \/ RAcqMapUnlock(p) \/ RelMapUnlock(p) \/ RRelMapUnlock(p))

\* a call for one name is inside the mutex while the lock of the other is held
MutexNeverBlockedWitness ==
    \E p, r \in Procs :
        /\ HoldsExclusive(p)
        /\ mapLock = r
        /\ lockName[r] \in Names \ {lockName[p]}

\* C11: a caller of RAcquire whose entry has no exclusive holder and no
\* exclusive waiter is granted the shared lock whatever shared holders there
\* are, and an Acquire issued while shared holders of its name hold is not
\* granted before every one of them has called RRelease.
SharedThenExclusive ==
    /\ [](\A p \in Procs :
            (pc[p] = "racq_rlock" /\ ent[nl[p]].w = 0 /\ ent[nl[p]].wwait = {})
                => ENABLED RAcqRLock(p))
    /\ [][\A q \in Procs :
             (pc[q] = "acq_lockwait" /\ pc'[q] = "acq_count") => seen[q] = {}]_vars

\* C12: while a caller that seeks exclusive access to an entry (an Acquire or
\* the goroutine of an Upgrade that has stored its write intent) has not yet
\* called Release, WriteLockMode() of the entry returns true.
SeeksExclusive(p) ==
    \/ pc[p] \in {"acq_lock", "acq_lockwait", "acq_count", "held_w", "held_u"}
    \/ tpc[p] \in {"t_lock", "t_lockwait", "t_count", "t_exit"}
WriteIntentTracked ==
    \A p \in Procs : SeeksExclusive(p) => ent[nl[p]].writeLockMode = 1

\* C13: for a caller that runs alone from a quiescent state, WriteLockMode()
\* is false while it holds its shared lock, is true from the moment
\* Upgrade's goroutine is about to request the exclusive lock, and is true
\* when Upgrade returns.
WriteIntentVisible ==
    \A p \in Procs :
        alone = p =>
            /\ HoldsShared(p) => ent[nl[p]].writeLockMode = 0
            /\ tpc[p] \in {"t_lock", "t_lockwait", "t_count", "t_exit"}
                  => ent[nl[p]].writeLockMode = 1
            /\ pc[p] = "held_u" => ent[nl[p]].writeLockMode = 1

\* Upgrade has returned to a caller that ran alone
WriteIntentVisibleWitness ==
    \E p \in Procs :
        /\ alone = p
        /\ pc[p] = "held_u"
        /\ ent[nl[p]].writeLockMode = 1
        /\ ent[nl[p]].writeLockCount = 1

\* C14: the write counter a caller reads from the handle Upgrade returned is
\* greater than the one it read under its shared lock before the Upgrade.
CounterIncreases ==
    \A p \in Procs :
        pc[p] = "held_u" => ent[nl[p]].writeLockCount > c0[p]

\* another caller was granted the exclusive lock during the Upgrade, after
\* earlier exclusive grants on the entry
CounterIncreasesWitness ==
    \E p \in Procs :
        /\ pc[p] = "held_u"
        /\ c0[p] >= 1
        /\ ent[nl[p]].writeLockCount > c0[p] + 1

\* C15: in Upgrade the goroutine's increment of the reference count comes
\* before the caller's RRelease, that RRelease never sees zero and never
\* removes the entry from the map, and the reference count is at least 1
\* from the increment to the Release of the upgraded handle.
HandshakeOrdering ==
    \A p \in Procs :
        /\ pc[p] = "up_rrelease" => tpc[p] # "t_add"
        /\ tpc[p] # "none" => pc[p] \notin {"rrel_maplock", "rrel_mapunlock"}
        /\ (tpc[p] \notin {"none", "t_add"} \/ pc[p] = "held_u")
              => ent[nl[p]].queueSize >= 1

\* the RRelease inside Upgrade has brought the reference count down to 1
HandshakeOrderingWitness ==
    \E p \in Procs :
        /\ tpc[p] # "none"
        /\ pc[p] = "rrel_runlock"
        /\ ent[nl[p]].queueSize = 1

\* C16: an entry's write counter equals the number of exclusive grants made
\* on it (a grant counts once the granted goroutine has done its increment,
\* which is the next thing it does), only the goroutine that holds the
\* entry's exclusive lock writes it, and for the caller of an Upgrade the
\* counter read after Upgrade is the counter read before plus 1 plus the
\* number of other goroutines granted the exclusive lock in between.
AboutToCount(e) ==
    {p \in Procs : nl[p] = e /\ (pc[p] = "acq_count" \/ tpc[p] = "t_count")}
CounterCountsGrants ==
    /\ [](\A e \in Entries :
            Created(e) =>
                ent[e].writeLockCount = grants[e] - Cardinality(AboutToCount(e)))
    /\ [](\A p \in Procs :
            HoldsExclusive(p) => ent[nl[p]].writeLockCount = grants[nl[p]])
    /\ [](\A p \in Procs :
            pc[p] = "held_u" => ent[nl[p]].writeLockCount = c0[p] + 1 + others[p])
    /\ [][\A e \in Entries :
             (Created(e) /\ ent'[e].writeLockCount # ent[e].writeLockCount)
                 => ent[e].w \in AboutToCount(e)]_vars

\* an upgraded caller finds that one other caller was granted the exclusive
\* lock during its Upgrade
CounterCountsGrantsWitness ==
    \E p \in Procs :
        /\ pc[p] = "held_u"
        /\ others[p] = 1
        /\ grants[nl[p]] = c0[p] + 2

\* C17: an entry's reference count equals the number of references taken on
\* it (by Acquire, RAcquire or Upgrade's goroutine) and not yet given back
\* (by Release or RRelease), is never negative, and Acquire and RAcquire
\* increment it while they hold the registry mutex.
CallerRefs(e) ==
    {p \in Procs : nl[p] = e /\
        pc[p] \in {"acq_mapunlock", "acq_store", "acq_lock", "acq_lockwait",
                   "acq_count", "held_w", "racq_mapunlock", "racq_store",
                   "racq_rlock", "held_r", "up_recv", "up_rrelease",
                   "held_u", "rel_add"}}
TaskRefs(e) ==
    {p \in Procs : nl[p] = e /\
        tpc[p] \in {"t_send", "t_store", "t_lock", "t_lockwait", "t_count", "t_exit"}}
RefCountAccounting ==
    /\ \A e \in Entries :
          Created(e) =>
              /\ ent[e].queueSize = Cardinality(CallerRefs(e)) + Cardinality(TaskRefs(e))
              /\ ent[e].queueSize >= 0
    /\ \A p \in Procs : pc[p] \in {"acq_add", "racq_add"} => mapLock = p

\* an entry referenced by a shared holder inside Upgrade, by the goroutine of
\* that Upgrade and by another caller
RefCountAccountingWitness ==
    \E e \in Entries :
        /\ Created(e)
        /\ ent[e].queueSize = 3
        /\ \E p \in Procs : pc[p] = "up_recv" /\ nl[p] = e

\* C18: a release whose decrement yields zero removes the entry's name from
\* the map, under the registry mutex, while it still holds the entry's RW
\* lock, and the entry is in the map in no later state; a release whose
\* decrement yields a non-zero value goes straight to the unlock, and neither
\* the decrement nor the unlock changes the map.
InRelease(p) == pc[p] \in {"rel_add", "rel_maplock", "rel_mapunlock", "rel_unlock"}
InRRelease(p) == pc[p] \in {"rrel_maplock", "rrel_mapunlock", "rrel_runlock"}
RemovalBeforeUnlock ==
    /\ [](\A p \in Procs :
            /\ InRelease(p) => ent[nl[p]].w = p
            /\ InRRelease(p) => p \in ent[nl[p]].r
            /\ pc[p] \in {"rel_mapunlock", "rrel_mapunlock"}
                  => mapLock = p /\ ~InMap(nl[p]))
    /\ [][\A e \in Entries : Removed(e) => Removed(e)']_vars
    /\ [][\A p \in Procs :
             /\ (pc[p] \in {"rel_maplock", "rrel_maplock"} /\ pc'[p] # pc[p])
                   => ~InMap(nl[p])'
             /\ (pc[p] \in {"rel_add", "held_r", "up_rrelease"} /\ pc'[p] # pc[p])
                   => /\ locks' = locks
                      /\ pc'[p] \in {"rel_maplock", "rrel_maplock"}
                            <=> (pc'[p] # "up_recv" /\ ent'[nl[p]].queueSize = 0)
             /\ (pc[p] \in {"rel_unlock", "rrel_runlock"} /\ pc'[p] # pc[p])
                   => locks' = locks]_vars

\* a release that saw zero has removed its entry and is about to unlock it
RemovalBeforeUnlockWitness ==
    \E p \in Procs :
        /\ pc[p] = "rel_unlock"
        /\ Removed(nl[p])
        /\ ent[nl[p]].queueSize = 0
        /\ ent[nl[p]].w = p

\* C19: when a Release or RRelease executes its map removal, the entry the
\* map holds under that name, if any, is the entry whose reference count
\* that release brought to zero.
RemovesOwnEntry ==
    [][\A p \in Procs :
          (pc[p] \in {"rel_maplock", "rrel_maplock"} /\ pc'[p] # pc[p])
              => locks[ent[nl[p]].name] \in {0, nl[p]}]_vars

\* C20: whenever no call is in progress and no handle is held, the map is
\* empty, the registry mutex is free, and every entry created so far has
\* reference count zero and a free RW lock.
Quiescent == AllIdle /\ \A p \in Procs : tpc[p] = "none"
NoLeakedEntries ==
    Quiescent =>
        /\ \A n \in Names : locks[n] = 0
        /\ mapLock = 0
        /\ \A e \in Entries :
              Created(e) => /\ ent[e].queueSize = 0
                            /\ ent[e].w = 0
                            /\ ent[e].r = {}
                            /\ ent[e].wwait = {}

\* quiescence after two entries were created and both kinds of release ran
NoLeakedEntriesWitness ==
    /\ Quiescent
    /\ nextId > 2
    /\ anyShared
    /\ \E e \in Entries : Created(e) /\ ent[e].writeLockCount > 0

====
